---------------------------- MODULE Spec2Model ----------------------------
(***************************************************************************)
(* Model of the AMD (answering-machine detection) service:                 *)
(*   - AMDDetector.analyze_transcription, the transcript classifier        *)
(*   - AMDSession, the per-call accumulation state machine                 *)
(*   - websocket_amd / websocket_stream, the streaming controllers, and    *)
(*     active_sessions, the process-wide registry they share               *)
(*                                                                         *)
(* Units.  Text is a TLA+ string, handled character by character.          *)
(* Confidence is in hundredths (0.85 is 85).  Durations and clock readings *)
(* are in milliseconds.  The confidences the classifier computes in        *)
(* floating point (0.7 + n * 0.1) differ from the exact values by less     *)
(* than 1e-15 and never cross a threshold the code compares them with      *)
(* (0.70 and 0.85), so the exact hundredths decide every branch alike.     *)
(***************************************************************************)
EXTENDS Integers, Sequences, FiniteSets, TLC

VARIABLES
    \* the streaming controllers (one per handler) and the shared registry
    pc,               \* handler -> position of the coroutine
    hkind,            \* handler -> "amd" (/ws/{call_id}) or "stream" (/ws/stream)
    call_id,          \* handler -> the handler's local call_id (NoCall before it is known)
    session,          \* handler -> the AMDSession it created (NoSession before)
    active_sessions,  \* call_id -> handler whose session the registry holds
    clock,            \* handler -> loop time minus start_time, in ms
    pending,          \* handler -> the result handed to send_json, not yet delivered
    sent,             \* handler -> the messages delivered on the websocket
    ended,            \* handler -> how the run left the loop
    frames,           \* number of audio frames delivered so far (all handlers)
    \* a session driven directly through its two methods
    sess,             \* the AMDSession
    ret,              \* what the last call returned
    calls,            \* number of calls made
    \* the classifier applied to one input
    cl_text,
    cl_duration,
    cl_result

ctl_vars == <<pc, hkind, call_id, session, active_sessions, clock, pending, sent, ended, frames>>
ses_vars == <<sess, ret, calls>>
cl_vars  == <<cl_text, cl_duration, cl_result>>
vars     == <<ctl_vars, ses_vars, cl_vars>>

-----------------------------------------------------------------------------
(* Bounds of the model *)

\* texts of the classifier's inputs have at most this many vocabulary words
MaxWords == 3
\* calls made on the directly driven session
MaxCalls == 3
\* audio frames delivered to two concurrent streaming controllers, together
MaxFrames == 1
\* audio frames delivered to a streaming controller running alone
MaxCallFrames == 2

\* requests served by the single-shot endpoint in one behaviour
MaxRequests == 2

-----------------------------------------------------------------------------
(* Program constants *)

\* config.py: AMD_DECISION_TIMEOUT_SECONDS = 3.5, in ms
AMD_DECISION_TIMEOUT_SECONDS == 3500
\* config.py: AMD_MIN_SPEECH_FOR_MACHINE = 2.5, in ms
AMD_MIN_SPEECH_FOR_MACHINE == 2500
\* main.py: asyncio.wait_for(websocket.receive_bytes(), timeout=0.5), in ms
RECEIVE_TIMEOUT == 500
\* main.py: AMDSession(amd_detector, call_id, sample_rate=8000)
DEFAULT_SAMPLE_RATE == 8000

\* config.py: VOICEMAIL_KEYWORDS, in the order of the list
VOICEMAIL_KEYWORDS ==
    << "mensaje", "buzón", "buzon", "tono", "ocupado", "disponible",
       "después del", "despues del", "deje su", "deja tu", "no se encuentra",
       "fuera de servicio", "no está disponible", "no esta disponible",
       "vuelva a llamar", "intentelo más tarde", "intentelo mas tarde",
       "número que usted marcó", "numero que usted marco",
       "en este momento", "por favor", "gracias por llamar",
       "horario de atención", "horario de atencion",
       "marque la extensión", "marque la extension",
       "bienvenido", "ha comunicado con", "ha llamado a",
       "voicemail", "leave a message", "after the tone", "beep",
       "not available", "please call back" >>

\* amd_detector.py: human_greetings, in the order of the list
human_greetings ==
    << "alo", "aló", "hola", "si", "sí", "diga", "digame", "dígame",
       "bueno", "quien", "quién", "mande" >>

-----------------------------------------------------------------------------
(* Python's str operations, on TLA+ strings *)

Min(a, b) == IF a < b THEN a ELSE b

Range(f) == {f[i] : i \in DOMAIN f}

\* the characters str.strip() and str.split() treat as whitespace
Whitespace == {" ", "\t", "\n", "\r"}

CharAt(s, i) == SubSeq(s, i, i)

\* str.lower() on one character
LowerChar(c) ==
    CASE c = "A" -> "a" [] c = "B" -> "b" [] c = "C" -> "c" [] c = "D" -> "d"
      [] c = "E" -> "e" [] c = "F" -> "f" [] c = "G" -> "g" [] c = "H" -> "h"
      [] c = "I" -> "i" [] c = "J" -> "j" [] c = "K" -> "k" [] c = "L" -> "l"
      [] c = "M" -> "m" [] c = "N" -> "n" [] c = "O" -> "o" [] c = "P" -> "p"
      [] c = "Q" -> "q" [] c = "R" -> "r" [] c = "S" -> "s" [] c = "T" -> "t"
      [] c = "U" -> "u" [] c = "V" -> "v" [] c = "W" -> "w" [] c = "X" -> "x"
      [] c = "Y" -> "y" [] c = "Z" -> "z"
      [] c = "Á" -> "á" [] c = "É" -> "é" [] c = "Í" -> "í" [] c = "Ó" -> "ó"
      [] c = "Ú" -> "ú" [] c = "Ñ" -> "ñ" [] c = "Ü" -> "ü"
      [] OTHER -> c

\* str.lower(), one half of the string after the other
RECURSIVE Lower(_)
Lower(s) ==
    IF Len(s) = 0 THEN ""
    ELSE IF Len(s) = 1 THEN LowerChar(s)
    ELSE Lower(SubSeq(s, 1, Len(s) \div 2)) \o Lower(SubSeq(s, Len(s) \div 2 + 1, Len(s)))

RECURSIVE LStrip(_)
LStrip(s) ==
    IF Len(s) > 0 /\ CharAt(s, 1) \in Whitespace
    THEN LStrip(SubSeq(s, 2, Len(s)))
    ELSE s

RECURSIVE RStrip(_)
RStrip(s) ==
    IF Len(s) > 0 /\ CharAt(s, Len(s)) \in Whitespace
    THEN RStrip(SubSeq(s, 1, Len(s) - 1))
    ELSE s

Strip(s) == RStrip(LStrip(s))

\* the end of the run of non-whitespace characters of s that starts at i
RECURSIVE WordEnd(_, _)
WordEnd(s, i) ==
    IF i > Len(s) \/ CharAt(s, i) \in Whitespace THEN i - 1 ELSE WordEnd(s, i + 1)

\* the words of a string that starts with a word
RECURSIVE SplitStripped(_)
Split(s) == SplitStripped(LStrip(s))

FirstWordAndRest(t, n) == << SubSeq(t, 1, n) >> \o Split(SubSeq(t, n + 1, Len(t)))

\* str.split(): the maximal runs of non-whitespace characters, in order
SplitStripped(t) ==
    IF Len(t) = 0 THEN << >> ELSE FirstWordAndRest(t, WordEnd(t, 1))

\* Python's `k in t` on strings: k occurs in t as a substring
Contains(t, k) ==
    \E i \in 1..(Len(t) - Len(k) + 1) : SubSeq(t, i, i + Len(k) - 1) = k

-----------------------------------------------------------------------------
(* AMDDetector.analyze_transcription *)

\* the keywords of the list that occur in the text, in list order
KeywordsFound(text_lower) ==
    SelectSeq(VOICEMAIL_KEYWORDS, LAMBDA keyword : Contains(text_lower, keyword))

\* REGLA 1: min(0.95, 0.7 + len(keywords_found) * 0.1)
KeywordConfidence(keywords_found) == Min(95, 70 + Len(keywords_found) * 10)

\* REGLA 3: some greeting occurs in the text (`greeting in text_lower`)
GreetingFound(text_lower) ==
    \E i \in DOMAIN human_greetings : Contains(text_lower, human_greetings[i])

Analysis(result, confidence, reason, transcription, keywords) ==
    [result |-> result, confidence |-> confidence, reason |-> reason,
     transcription |-> transcription, keywords |-> keywords]

\* the rules with the greeting rule tried before the keyword rule
RulesGreetingFirst(text_lower, keywords_found, words, speech_duration) ==
    IF text_lower = ""
    THEN Analysis("UNKNOWN", 0, "No se detecto habla", "", << >>)
    ELSE IF Len(words) <= 3 /\ GreetingFound(text_lower)
    THEN Analysis("HUMAN", 85, "Saludo humano detectado", text_lower, << >>)
    ELSE IF Len(keywords_found) >= 1
    THEN Analysis("MACHINE", KeywordConfidence(keywords_found),
                  "Palabras clave detectadas", text_lower, keywords_found)
    ELSE IF speech_duration > AMD_MIN_SPEECH_FOR_MACHINE /\ Len(words) > 8
    THEN Analysis("MACHINE", 75, "Habla continua larga", text_lower, << >>)
    ELSE IF Len(words) <= 4 /\ Len(keywords_found) = 0
    THEN Analysis("HUMAN", 70, "Respuesta corta sin indicadores de buzon",
                  text_lower, << >>)
    ELSE Analysis("UNKNOWN", 50, "No se pudo determinar con certeza",
                  text_lower, << >>)

\* the rules with the short-answer rule reaching texts of five words
RulesShortUpToFive(text_lower, keywords_found, words, speech_duration) ==
    IF text_lower = ""
    THEN Analysis("UNKNOWN", 0, "No se detecto habla", "", << >>)
    ELSE IF Len(keywords_found) >= 1
    THEN Analysis("MACHINE", KeywordConfidence(keywords_found),
                  "Palabras clave detectadas", text_lower, keywords_found)
    ELSE IF speech_duration > AMD_MIN_SPEECH_FOR_MACHINE /\ Len(words) > 8
    THEN Analysis("MACHINE", 75, "Habla continua larga", text_lower, << >>)
    ELSE IF Len(words) <= 3 /\ GreetingFound(text_lower)
    THEN Analysis("HUMAN", 85, "Saludo humano detectado", text_lower, << >>)
    ELSE IF Len(words) <= 5 /\ Len(keywords_found) = 0
    THEN Analysis("HUMAN", 70, "Respuesta corta sin indicadores de buzon",
                  text_lower, << >>)
    ELSE Analysis("UNKNOWN", 50, "No se pudo determinar con certeza",
                  text_lower, << >>)

\* the rules, on the normalised text, the keywords found in it and its words
Rules(text_lower, keywords_found, words, speech_duration) ==
    IF text_lower = ""
    THEN Analysis("UNKNOWN", 0, "No se detecto habla", "", << >>)
    ELSE IF Len(keywords_found) >= 1
    THEN Analysis("MACHINE", KeywordConfidence(keywords_found),
                  "Palabras clave detectadas", text_lower, keywords_found)
    ELSE IF speech_duration > AMD_MIN_SPEECH_FOR_MACHINE /\ Len(words) > 8
    THEN Analysis("MACHINE", 75, "Habla continua larga", text_lower, << >>)
    ELSE IF Len(words) <= 3 /\ GreetingFound(text_lower)
    THEN Analysis("HUMAN", 85, "Saludo humano detectado", text_lower, << >>)
    ELSE IF Len(words) <= 4 /\ Len(keywords_found) = 0
    THEN Analysis("HUMAN", 70, "Respuesta corta sin indicadores de buzon",
                  text_lower, << >>)
    ELSE Analysis("UNKNOWN", 50, "No se pudo determinar con certeza",
                  text_lower, << >>)

AnalyzeNormalised(text_lower, speech_duration) ==
    Rules(text_lower, KeywordsFound(text_lower), Split(text_lower), speech_duration)

\* text_lower = text.lower().strip()
Normalise(text) == Strip(Lower(text))

analyze_transcription(text, speech_duration) ==
    AnalyzeNormalised(Normalise(text), speech_duration)

-----------------------------------------------------------------------------
(* The classifier applied to one input: texts and durations of the inputs *)

\* words the generated texts are made of: a greeting, a word that only
\* contains a greeting ("si" in "casi"), a neutral word, keywords, the two
\* halves of a keyword with a space in it, and a keyword in capitals
Vocabulary == << "hola", "casi", "pedro", "buzon", "por", "favor", "TONO" >>

RECURSIVE Join(_)
Join(ws) ==
    IF Len(ws) = 0 THEN ""
    ELSE IF Len(ws) = 1 THEN ws[1]
    ELSE ws[1] \o " " \o Join(Tail(ws))

WordSeqs(n) == UNION {[1..k -> Range(Vocabulary)] : k \in 0..n}

GeneratedTexts == {Join(ws) : ws \in WordSeqs(MaxWords)}

\* the inputs of test_amd.py, and texts of 4, 5 and 9 words without keyword
TestTexts ==
    { "hola", "alo", "digame", "si bueno", "quien habla",
      "el numero que usted marco no se encuentra disponible",
      "deje su mensaje despues del tono",
      "buzon de voz por favor deje su mensaje",
      "gracias por llamar en este momento no podemos atenderle",
      "bienvenido ha comunicado con el buzon de mensajes",
      "",
      "a b c d", "a b c d e",
      "a b c d e f g h i",
      " ", "  Hola \n", "\tBUZÓN de voz " }

Texts == GeneratedTexts \cup TestTexts

\* speech durations, in ms: none, short, the threshold and beyond it
Durations == {0, 500, 2500, 3000}

NoAnalysis == [result |-> "NONE"]

ClInit ==
    /\ cl_text \in Texts
    /\ cl_duration \in Durations
    /\ cl_result = NoAnalysis

Classify ==
    /\ cl_result = NoAnalysis
    /\ cl_result' = analyze_transcription(cl_text, cl_duration)
    /\ UNCHANGED <<cl_text, cl_duration>>

-----------------------------------------------------------------------------
(* AMDSession *)

\* Python's None, as a result
NoResult == [result |-> "NONE"]

\* what a call that raised hands back to its caller
Raised == [result |-> "RAISED"]

\* what the recognizer answers to one chunk of audio:
\*   "final"   AcceptWaveform returned true, Result() carries `text`
\*   "partial" AcceptWaveform returned false, PartialResult() carries `text`
\*   "error"   AcceptWaveform raised (the chunk could not be processed)
Asr(kind, text) == [kind |-> kind, text |-> text]

\* AMDSession.__init__; the recognizer is the count of its calls and whether
\* it has reported any text yet
AMDSession(cid, sample_rate) ==
    [call_id |-> cid,
     sample_rate |-> sample_rate,
     recognizer |-> [accepted |-> 0, flushed |-> 0, voiced |-> FALSE],
     accumulated_text |-> "",
     total_speech_duration |-> 0,
     decision_made |-> FALSE,
     final_result |-> NoResult]

\* {"call_id": self.call_id, **analysis} with the optional "partial" and
\* "forced" keys (absent is FALSE)
Result(self, analysis, partial, forced) ==
    [call_id |-> self.call_id,
     result |-> analysis.result,
     confidence |-> analysis.confidence,
     reason |-> analysis.reason,
     transcription |-> analysis.transcription,
     keywords |-> analysis.keywords,
     partial |-> partial,
     forced |-> forced]

\* a call's effect: the session after it and the value it returns
Returns(self, value) == [session |-> self, value |-> value]

\* a decision that caches the result and forgets to set decision_made
DecidesWithoutFlag(self, result) ==
    Returns([self EXCEPT !.final_result = result], result)

\* self.decision_made = True; self.final_result = result; return it
Decides(self, result) ==
    Returns([self EXCEPT !.decision_made = TRUE, !.final_result = result], result)

\* the duration counted at one byte a sample
ChunkDurationOfBytes(self, len) == (len * 1000) \div self.sample_rate

\* len(audio_data) / (self.sample_rate * 2), in ms
ChunkDuration(self, len) == (len * 1000) \div (self.sample_rate * 2)

\* the threshold of a finalized utterance lowered to 0.50
ConfidentLoose(analysis) == analysis.confidence >= 50

\* `if analysis["confidence"] >= 0.70`
Confident(analysis) == analysis.confidence >= 70

\* the fast exit taken from confidence 0.80
ObviousMachineLoose(quick_analysis) ==
    quick_analysis.result = "MACHINE" /\ quick_analysis.confidence >= 80

\* the fast exit taken on any confident classification, HUMAN included
ObviousAnything(quick_analysis) == quick_analysis.confidence >= 85

\* `if quick_analysis["result"] == "MACHINE" and quick_analysis["confidence"] >= 0.85`
ObviousMachine(quick_analysis) ==
    quick_analysis.result = "MACHINE" /\ quick_analysis.confidence >= 85

\* process_audio, finalized utterance: the decision on the analysis
DecideOnFinal(acc, analysis) ==
    IF Confident(analysis)
    THEN Decides(acc, Result(acc, analysis, FALSE, FALSE))
    ELSE Returns(acc, NoResult)

\* the new text put in front of the transcript
PrependText(self, text) == [self EXCEPT !.accumulated_text = text \o " " \o @]

\* self.accumulated_text += " " + text
AppendText(self, text) == [self EXCEPT !.accumulated_text = @ \o " " \o text]

\* self.total_speech_duration += len(audio_data) / (self.sample_rate * 2)
AddDuration(self, len) ==
    [self EXCEPT !.total_speech_duration = @ + ChunkDuration(self, len)]

\* analyze_transcription(self.accumulated_text.strip(), self.total_speech_duration)
AnalyzeAccumulated(acc) ==
    analyze_transcription(Strip(acc.accumulated_text), acc.total_speech_duration)

AnalyzeAndDecide(acc) == DecideOnFinal(acc, AnalyzeAccumulated(acc))

\* the branch of process_audio for a finalized utterance
ProcessFinal(self, len, text) ==
    IF text # ""
    THEN AnalyzeAndDecide(AddDuration(AppendText(self, text), len))
    ELSE Returns(self, NoResult)

\* process_audio, utterance in progress: the decision on the quick analysis
DecideOnPartial(self, quick_analysis) ==
    IF ObviousMachine(quick_analysis)
    THEN Decides(self, Result(self, quick_analysis, TRUE, FALSE))
    ELSE Returns(self, NoResult)

\* the branch of process_audio for an utterance in progress
ProcessPartial(self, partial_text) ==
    IF partial_text # ""
    THEN DecideOnPartial(self, analyze_transcription(partial_text, 0))
    ELSE Returns(self, NoResult)

\* the early return left out
NeverDecided(self) == FALSE

\* the early return of process_audio and of force_decision
AlreadyDecided(self) == self.decision_made

\* self.recognizer.AcceptWaveform(audio_data) is called
Fed(self) == [self EXCEPT !.recognizer.accepted = @ + 1]

\* self.recognizer.FinalResult() is called
Flushed(self) == [self EXCEPT !.recognizer.flushed = @ + 1]

\* the recognizer reports `text` (Result, PartialResult or FinalResult)
Reported(self, text) == [self EXCEPT !.recognizer.voiced = @ \/ text # ""]

process_audio(self, len, asr) ==
    IF AlreadyDecided(self)
    THEN Returns(self, self.final_result)
    ELSE CASE asr.kind = "error"   -> Returns(Fed(self), Raised)
           [] asr.kind = "final" ->
                  ProcessFinal(Reported(Fed(self), asr.text), len, asr.text)
           [] asr.kind = "partial" ->
                  ProcessPartial(Reported(Fed(self), asr.text), asr.text)

\* force_decision: the unconditional decision on the analysis
DecideForced(acc, analysis) == Decides(acc, Result(acc, analysis, FALSE, TRUE))

ForceOn(acc) == DecideForced(acc, AnalyzeAccumulated(acc))

force_decision(self, final_text) ==
    IF AlreadyDecided(self)
    THEN Returns(self, self.final_result)
    ELSE IF final_text # ""
    THEN ForceOn(AppendText(Reported(Flushed(self), final_text), final_text))
    ELSE ForceOn(Flushed(self))

-----------------------------------------------------------------------------
(* One session driven directly through process_audio and force_decision *)

\* what the recognizer can report as text: nothing, a greeting, a short
\* answer, four, five and nine words without keyword, one keyword, two
\* keywords
Utterances ==
    { "", "hola", "pedro", "a b c d", "a b c d e", "a b c d e f g h i", "buzon",
      "deje su mensaje" }

AsrOutcomes ==
    {Asr("final", t) : t \in Utterances} \cup {Asr("partial", t) : t \in Utterances}
        \cup {Asr("error", "")}

\* chunk lengths in bytes: empty, 0.2 s and 3 s of 8 kHz 16-bit audio
ChunkLengths == {0, 3200, 48000}

SampleRates == {8000, 16000}

SesInit ==
    /\ sess \in {AMDSession("a", sr) : sr \in SampleRates}
    /\ ret = NoResult
    /\ calls = 0

\* the caller of a method gets its value, the session its effect
Called(r) ==
    /\ sess' = r.session
    /\ ret' = r.value
    /\ calls' = calls + 1

CallProcessAudio ==
    /\ calls < MaxCalls
    /\ \E len \in ChunkLengths, asr \in AsrOutcomes : Called(process_audio(sess, len, asr))

CallForceDecision ==
    /\ calls < MaxCalls
    /\ \E final_text \in Utterances : Called(force_decision(sess, final_text))

-----------------------------------------------------------------------------
(* The single-shot endpoint POST /analyze.  It has no await between its      *)
(* first and last line, so a request is one step; `sess` is the temporary    *)
(* session of the last request and `ret` the response to it.                 *)

\* JSONResponse(content=result)
JSONResponse(content) == [status |-> 200, content |-> content]

\* raise HTTPException(status_code=500, detail=str(e))
HTTPException(status_code) == [status |-> status_code, content |-> NoResult]

\* `if not result: result = session.force_decision()`, then the response
ForceIfNone(r, final_text) ==
    IF r.value = NoResult
    THEN force_decision(r.session, final_text)
    ELSE r

\* the body of the try block, after process_audio has returned or raised
Respond(r, final_text) ==
    IF r.value = Raised
    THEN Returns(r.session, HTTPException(500))
    ELSE Returns(ForceIfNone(r, final_text).session,
                 JSONResponse(ForceIfNone(r, final_text).value))

\* analyze_audio on a buffer of `len` bytes, with what the recognizer
\* answers to the buffer and to the flush
analyze_audio(cid, sample_rate, len, asr, final_text) ==
    Respond(process_audio(AMDSession(cid, sample_rate), len, asr), final_text)

\* call_id values of an AnalyzeRequest
RequestCallIds == {"a", "b"}

\* what FinalResult() reports when a request's decision is forced
RequestFlushTexts == {"", "hola", "buzon"}

\* a request is served
AnalyzeAudio ==
    /\ calls < MaxRequests
    /\ \E cid \in RequestCallIds, sample_rate \in SampleRates, len \in ChunkLengths,
          asr \in AsrOutcomes, final_text \in RequestFlushTexts :
            Called(analyze_audio(cid, sample_rate, len, asr, final_text))

-----------------------------------------------------------------------------
(* The streaming controllers websocket_amd and websocket_stream, and the     *)
(* registry active_sessions.  Code between two awaits runs without           *)
(* interruption (one event loop), so an action is the code from one await    *)
(* to the next.  A handler's session is identified by the handler.           *)

Handlers == {1, 2}

\* Python's None, as a call_id
NoCall == "None"

NoSession == [call_id |-> NoCall, decision_made |-> FALSE]

\* call_id values of the path /ws/{call_id}: a path segment is never empty
PathCallIds == {"a", "b"}

\* call_id values of the configuration message of /ws/stream
ConfigCallIds == {"a", ""}

\* sample_rate values of the configuration message of /ws/stream
ConfigSampleRates == {16000}

\* what the recognizer reports to the controllers' sessions
StreamAsrOutcomes ==
    { Asr("final", ""), Asr("final", "hola"), Asr("final", "a b c d e"),
      Asr("partial", ""), Asr("partial", "buzon"), Asr("partial", "deje su mensaje"),
      Asr("error", "") }

\* what FinalResult() reports when force_decision flushes the recognizer
FlushTexts == {"", "buzon"}

\* chunk lengths in bytes of the streamed frames
StreamChunkLengths == {3200}

\* how long after the start of a poll a frame arrives, in ms (under the timeout)
FrameDelays == {250}

\* a message delivered on the websocket, with the elapsed time at the send
Msg(type, body, at) == [type |-> type, body |-> body, at |-> at]

\* active_sessions[call_id] = session
Register(reg, cid, h) ==
    [k \in DOMAIN reg \cup {cid} |-> IF k = cid THEN h ELSE reg[k]]

\* del active_sessions[call_id]
Evict(reg, cid) == [k \in DOMAIN reg \ {cid} |-> reg[k]]

\* truth value of a call_id in `if call_id and ...`
Truthy(cid) == cid # NoCall /\ cid # ""

\* websocket_amd, finally: if call_id in active_sessions: del ...
finally_amd(reg, cid) ==
    IF cid \in DOMAIN reg THEN Evict(reg, cid) ELSE reg

\* websocket_stream, finally: if call_id and call_id in active_sessions: del ...
finally_stream(reg, cid) ==
    IF Truthy(cid) /\ cid \in DOMAIN reg THEN Evict(reg, cid) ELSE reg

\* the finally block of handler h, and the end of the coroutine (its local
\* start_time goes with it)
Finally(h) ==
    /\ clock' = [clock EXCEPT ![h] = 0]
    /\ active_sessions' = IF hkind[h] = "amd"
                          THEN finally_amd(active_sessions, call_id[h])
                          ELSE finally_stream(active_sessions, call_id[h])
    /\ pc' = [pc EXCEPT ![h] = "done"]

\* the deadline test passing at the deadline itself
DeadlineReached(elapsed) == elapsed >= AMD_DECISION_TIMEOUT_SECONDS

\* `if elapsed > AMD_DECISION_TIMEOUT_SECONDS`
DeadlinePassed(elapsed) == elapsed > AMD_DECISION_TIMEOUT_SECONDS

\* the decision written to every session created under the same call_id, as
\* if sessions were reached through the registry
HandToSendShared(h, r) ==
    /\ session' = [g \in Handlers |->
                      IF g = h \/ session[g].call_id = r.session.call_id
                      THEN r.session ELSE session[g]]
    /\ pending' = [pending EXCEPT ![h] = r.value]
    /\ pc' = [pc EXCEPT ![h] = "send"]

\* a result r.value of session r.session is handed to send_json
HandToSend(h, r) ==
    /\ session' = [session EXCEPT ![h] = r.session]
    /\ pending' = [pending EXCEPT ![h] = r.value]
    /\ pc' = [pc EXCEPT ![h] = "send"]

\* the handler awaits the next frame
AwaitFrame(h, self) ==
    /\ session' = [session EXCEPT ![h] = self]
    /\ pending' = pending
    /\ pc' = [pc EXCEPT ![h] = "recv"]

\* the top of the while loop, reached with session `self` at time `elapsed`:
\* past the deadline the decision is forced and handed to send_json,
\* otherwise the handler awaits the next frame
LoopTop(h, self, elapsed) ==
    IF DeadlinePassed(elapsed)
    THEN \E final_text \in FlushTexts : HandToSend(h, force_decision(self, final_text))
    ELSE AwaitFrame(h, self)

CtlInit ==
    /\ pc = [h \in Handlers |-> "idle"]
    /\ hkind = [h \in Handlers |-> "none"]
    /\ call_id = [h \in Handlers |-> NoCall]
    /\ session = [h \in Handlers |-> NoSession]
    /\ active_sessions = << >>
    /\ clock = [h \in Handlers |-> 0]
    /\ pending = [h \in Handlers |-> NoResult]
    /\ sent = [h \in Handlers |-> << >>]
    /\ ended = [h \in Handlers |-> "no"]
    /\ frames = 0

\* handlers are numbered in the order in which their connections are accepted
NextToConnect(h) == pc[h] = "idle" /\ \A g \in Handlers : g < h => pc[g] # "idle"

\* websocket_amd up to its first await of a frame
ConnectAmd(h) ==
    /\ NextToConnect(h)
    /\ \E cid \in PathCallIds :
          /\ call_id' = [call_id EXCEPT ![h] = cid]
          /\ active_sessions' = Register(active_sessions, cid, h)
          /\ LoopTop(h, AMDSession(cid, DEFAULT_SAMPLE_RATE), 0)
    /\ hkind' = [hkind EXCEPT ![h] = "amd"]
    /\ clock' = [clock EXCEPT ![h] = 0]
    /\ UNCHANGED <<sent, ended, frames>>

\* websocket_stream up to its await of the configuration message
ConnectStream(h) ==
    /\ NextToConnect(h)
    /\ pc' = [pc EXCEPT ![h] = "config"]
    /\ hkind' = [hkind EXCEPT ![h] = "stream"]
    /\ UNCHANGED <<call_id, session, active_sessions, clock, pending, sent, ended, frames>>

\* websocket_stream: the configuration arrives; the session is created and
\* registered, and the handler awaits the send of the "ready" message
ReceiveConfig(h) ==
    /\ pc[h] = "config"
    /\ \E cid \in ConfigCallIds, sample_rate \in ConfigSampleRates :
          /\ call_id' = [call_id EXCEPT ![h] = cid]
          /\ session' = [session EXCEPT ![h] = AMDSession(cid, sample_rate)]
          /\ active_sessions' = Register(active_sessions, cid, h)
    /\ pc' = [pc EXCEPT ![h] = "ready"]
    /\ UNCHANGED <<hkind, clock, pending, sent, ended, frames>>

\* websocket_stream: the client leaves before configuring (call_id is None)
ConfigDisconnect(h) ==
    /\ pc[h] = "config"
    /\ ended' = [ended EXCEPT ![h] = "disconnect"]
    /\ Finally(h)
    /\ UNCHANGED <<hkind, call_id, session, pending, sent, frames>>

\* websocket_stream: "ready" is delivered, the clock starts, the loop begins
SendReady(h) ==
    /\ pc[h] = "ready"
    /\ sent' = [sent EXCEPT ![h] = Append(@, Msg("ready", NoResult, 0))]
    /\ clock' = [clock EXCEPT ![h] = 0]
    /\ LoopTop(h, session[h], 0)
    /\ UNCHANGED <<hkind, call_id, active_sessions, ended, frames>>

\* process_audio raised: except Exception; websocket_amd then awaits the
\* send of an error reply, websocket_stream goes to its finally block
Excepted(h, r) ==
    /\ session' = [session EXCEPT ![h] = r.session]
    /\ ended' = [ended EXCEPT ![h] = "error"]
    /\ pending' = pending
    /\ IF hkind[h] = "amd"
       THEN /\ pc' = [pc EXCEPT ![h] = "error"]
            /\ UNCHANGED <<active_sessions, clock>>
       ELSE Finally(h)

\* what follows process_audio at time `now`: an exception leaves the loop, a
\* result is handed to send_json, and otherwise the loop goes round
Processed(h, now, r) ==
    IF r.value = Raised
    THEN Excepted(h, r)
    ELSE /\ clock' = [clock EXCEPT ![h] = now]
         /\ UNCHANGED <<ended, active_sessions>>
         /\ IF r.value # NoResult THEN HandToSend(h, r) ELSE LoopTop(h, r.session, now)

\* receive_bytes returns a frame within the poll timeout: process_audio runs
ReceiveFrame(h) ==
    /\ pc[h] = "recv"
    /\ frames' = frames + 1
    /\ \E d \in FrameDelays, len \in StreamChunkLengths, asr \in StreamAsrOutcomes :
          Processed(h, clock[h] + d, process_audio(session[h], len, asr))
    /\ UNCHANGED <<hkind, call_id, sent>>

\* wait_for times out with no frame: the loop goes round
ReceiveTimeout(h) ==
    /\ pc[h] = "recv"
    /\ clock' = [clock EXCEPT ![h] = @ + RECEIVE_TIMEOUT]
    /\ LoopTop(h, session[h], clock[h] + RECEIVE_TIMEOUT)
    /\ UNCHANGED <<hkind, call_id, active_sessions, sent, ended, frames>>

\* a disconnect handled like the deadline: the decision is forced and sent
ForcedOnDisconnect(h, r) ==
    /\ session' = [session EXCEPT ![h] = r.session]
    /\ sent' = [sent EXCEPT ![h] = Append(@, Msg("result", r.value, clock[h]))]

ReceiveDisconnectForcing(h) ==
    /\ pc[h] = "recv"
    /\ ended' = [ended EXCEPT ![h] = "disconnect"]
    /\ Finally(h)
    /\ \E final_text \in FlushTexts : ForcedOnDisconnect(h, force_decision(session[h], final_text))
    /\ UNCHANGED <<hkind, call_id, pending, frames>>

\* receive_bytes raises WebSocketDisconnect: the loop is left
ReceiveDisconnect(h) ==
    /\ pc[h] = "recv"
    /\ ended' = [ended EXCEPT ![h] = "disconnect"]
    /\ Finally(h)
    /\ UNCHANGED <<hkind, call_id, session, pending, sent, frames>>

\* send_json(result) completes: break, finally
SendResult(h) ==
    /\ pc[h] = "send"
    /\ sent' = [sent EXCEPT ![h] = Append(@, Msg("result", pending[h], clock[h]))]
    /\ pending' = [pending EXCEPT ![h] = NoResult]
    /\ ended' = [ended EXCEPT ![h] = IF pending[h].forced THEN "timeout" ELSE "decision"]
    /\ Finally(h)
    /\ UNCHANGED <<hkind, call_id, session, frames>>

\* send_json raises because the client has gone: except, finally
SendDisconnect(h) ==
    /\ pc[h] \in {"ready", "send"}
    /\ pending' = [pending EXCEPT ![h] = NoResult]
    /\ ended' = [ended EXCEPT ![h] = "disconnect"]
    /\ Finally(h)
    /\ UNCHANGED <<hkind, call_id, session, sent, frames>>

\* websocket_amd, except Exception: send_json({"error": ...}) is tried
\* (a failure of it is swallowed), then finally
SendError(h) ==
    /\ pc[h] = "error"
    /\ \E delivered \in BOOLEAN :
          sent' = [sent EXCEPT ![h] =
                      IF delivered THEN Append(@, Msg("error", NoResult, clock[h])) ELSE @]
    /\ Finally(h)
    /\ UNCHANGED <<hkind, call_id, session, pending, ended, frames>>

-----------------------------------------------------------------------------
(* Specifications *)

\* the variables of the parts a specification does not use stay as they start
CtlIdle == CtlInit
SesIdle == sess = NoSession /\ ret = NoResult /\ calls = 0
ClIdle  == cl_text = "" /\ cl_duration = 0 /\ cl_result = NoAnalysis

Init == CtlInit /\ SesIdle /\ ClIdle

\* a step of handler h, with at most max_frames frames delivered in all
HandlerStep(h, max_frames) ==
    \/ ConnectAmd(h) /\ UNCHANGED <<ses_vars, cl_vars>>
    \/ ConnectStream(h) /\ UNCHANGED <<ses_vars, cl_vars>>
    \/ ReceiveConfig(h) /\ UNCHANGED <<ses_vars, cl_vars>>
    \/ ConfigDisconnect(h) /\ UNCHANGED <<ses_vars, cl_vars>>
    \/ SendReady(h) /\ UNCHANGED <<ses_vars, cl_vars>>
    \/ frames < max_frames /\ ReceiveFrame(h) /\ UNCHANGED <<ses_vars, cl_vars>>
    \/ ReceiveTimeout(h) /\ UNCHANGED <<ses_vars, cl_vars>>
    \/ ReceiveDisconnect(h) /\ UNCHANGED <<ses_vars, cl_vars>>
    \/ SendResult(h) /\ UNCHANGED <<ses_vars, cl_vars>>
    \/ SendDisconnect(h) /\ UNCHANGED <<ses_vars, cl_vars>>
    \/ SendError(h) /\ UNCHANGED <<ses_vars, cl_vars>>

Next == \E h \in Handlers : HandlerStep(h, MaxFrames)

\* the streaming controllers of two concurrent calls, any interleaving
Spec == Init /\ [][Next]_vars

CallNext == HandlerStep(1, MaxCallFrames)

\* the streaming controller of one call
CallSpec == Init /\ [][CallNext]_vars

\* a handler that has entered its loop is resumed: its poll returns by the
\* timeout at the latest, and its sends complete or fail
Resume(h) ==
    /\ pc[h] \in {"ready", "recv", "send", "error"}
    /\ HandlerStep(h, MaxCallFrames)

FairCallSpec == CallSpec /\ WF_vars(Resume(1))

SessionInit == SesInit /\ CtlIdle /\ ClIdle

SessionNext ==
    \/ CallProcessAudio /\ UNCHANGED <<ctl_vars, cl_vars>>
    \/ CallForceDecision /\ UNCHANGED <<ctl_vars, cl_vars>>

\* one session under any sequence of calls
SessionSpec == SessionInit /\ [][SessionNext]_vars

AnalyzeInit == Init

AnalyzeNext == AnalyzeAudio /\ UNCHANGED <<ctl_vars, cl_vars>>

\* the single-shot endpoint under any sequence of requests
AnalyzeSpec == AnalyzeInit /\ [][AnalyzeNext]_vars

ClassifyInit == ClInit /\ CtlIdle /\ SesIdle

ClassifyNext == Classify /\ UNCHANGED <<ctl_vars, ses_vars>>

\* the classifier on every input of the bounded sets
ClassifySpec == ClassifyInit /\ [][ClassifyNext]_vars

-----------------------------------------------------------------------------
(* Properties *)

\* the DecisionResults among the messages a handler has delivered
Results(h) == {i \in DOMAIN sent[h] : sent[h][i].type = "result"}

\* the run of handler h was cut by a transport disconnect
Disconnected(h) == ended[h] = "disconnect"

\* handler h created a session and its coroutine has returned
RunOver(h) == pc[h] = "done" /\ session[h] # NoSession

\* C1: for any frames and poll timeouts, and no transport disconnect, a
\* streaming controller run that has entered its loop eventually stops, and
\* a run that has stopped has sent exactly one DecisionResult (never zero,
\* never two).
C1_ExactlyOneResult ==
    /\ \A h \in Handlers : (pc[h] = "recv") ~> (pc[h] = "done")
    /\ [](\A h \in Handlers : Cardinality(Results(h)) <= 1)
    /\ [](\A h \in Handlers :
            (RunOver(h) /\ ~Disconnected(h)) => Cardinality(Results(h)) = 1)

\* C2: no DecisionResult, forced or not, is sent at an elapsed time since
\* the session's start that is greater than the decision deadline.
C2_ResultWithinDeadline ==
    \A h \in Handlers : \A i \in Results(h) :
        sent[h][i].at <= AMD_DECISION_TIMEOUT_SECONDS

\* C3: a final_result without forced=true has outcome HUMAN or MACHINE and
\* confidence >= 0.70; a final_result with outcome UNKNOWN or confidence
\* below 0.70 carries forced=true and comes from force_decision (the only
\* call that flushes the recognizer).
C3_UnforcedIsConfident ==
    sess.decision_made =>
        /\ ~sess.final_result.forced =>
              /\ sess.final_result.result \in {"HUMAN", "MACHINE"}
              /\ sess.final_result.confidence >= 70
        /\ (sess.final_result.result = "UNKNOWN" \/ sess.final_result.confidence < 70) =>
              /\ sess.final_result.forced
              /\ sess.recognizer.flushed = 1

\* a forced decision of low confidence has been made
C3_Witness ==
    /\ sess.decision_made
    /\ sess.final_result.forced
    /\ sess.final_result.result = "UNKNOWN"
    /\ sess.final_result.confidence = 50

\* C4: decision_made never goes from true back to false, final_result once
\* assigned never changes, and final_result is present if and only if
\* decision_made is true.
C4_DecisionMonotonic ==
    /\ [](sess.decision_made <=> sess.final_result # NoResult)
    /\ [][/\ sess.decision_made => sess'.decision_made
          /\ sess.final_result # NoResult => sess'.final_result = sess.final_result]_vars

\* a forced decision was followed by a further call
C4_Witness ==
    /\ sess.decision_made
    /\ sess.final_result.forced
    /\ calls > sess.recognizer.accepted + sess.recognizer.flushed

\* C5: on a decided session every call (process_audio with any frame, or
\* force_decision) returns the cached final_result and changes nothing of
\* the session, the recognizer's feed and flush counts included.
C5_DecidedIsIdempotent ==
    [][sess.decision_made => (sess' = sess /\ ret' = sess.final_result)]_vars

\* a decision made from evidence on the first call was followed by two calls
C5_Witness ==
    /\ sess.decision_made
    /\ ~sess.final_result.forced
    /\ sess.recognizer.accepted = 1
    /\ calls >= 3
    /\ ret = sess.final_result

\* C6: a session is never created for a call_id that has an entry in the
\* registry, and an entry of the registry is never pointed at another
\* session.
C6_DuplicateRejected ==
    [][/\ \A h \in Handlers :
             (session[h] = NoSession /\ session'[h] # NoSession)
                 => session'[h].call_id \notin DOMAIN active_sessions
       /\ \A cid \in DOMAIN active_sessions :
             cid \in DOMAIN active_sessions'
                 => active_sessions'[cid] = active_sessions[cid]]_vars

\* C7: no run is left through the exception handler and no error reply is
\* sent: a frame the recognizer cannot process does not abort the session.
C7_BadFrameAbsorbed ==
    \A h \in Handlers :
        /\ ended[h] # "error"
        /\ \A i \in DOMAIN sent[h] : sent[h][i].type # "error"

\* C8: a disconnect met while awaiting a frame stops the loop and leaves the
\* session and the sent messages as they are; a run cut by a disconnect with
\* its session undecided has stopped, never called force_decision (the
\* recognizer was not flushed) and sent no DecisionResult.
C8_DisconnectDiscards ==
    /\ [][\A h \in Handlers :
            (pc[h] = "recv" /\ ~Disconnected(h) /\ Disconnected(h)')
                => /\ session'[h] = session[h]
                   /\ sent'[h] = sent[h]
                   /\ pc'[h] = "done"]_vars
    /\ [](\A h \in Handlers :
            (Disconnected(h) /\ session[h] # NoSession /\ ~session[h].decision_made)
                => /\ pc[h] = "done"
                   /\ session[h].recognizer.flushed = 0
                   /\ Results(h) = {})

\* a run was cut by a disconnect after its session had taken a frame
C8_Witness ==
    \E h \in Handlers :
        /\ Disconnected(h)
        /\ session[h] # NoSession
        /\ ~session[h].decision_made
        /\ session[h].recognizer.accepted >= 1

\* C9: after a run has ended the registry holds no entry for its session,
\* and while a run that has registered is active the registry maps its
\* call_id to its own session.
C9_RegistryTracksRuns ==
    \A h \in Handlers :
        /\ pc[h] = "done" => \A cid \in DOMAIN active_sessions : active_sessions[cid] # h
        /\ (pc[h] \notin {"idle", "config", "done"})
              => /\ call_id[h] \in DOMAIN active_sessions
                 /\ active_sessions[call_id[h]] = h

\* the keywords of the list that occur in a text once it is lower-cased and
\* trimmed
Matched(text) == {k \in Range(VOICEMAIL_KEYWORDS) : Contains(Normalise(text), k)}

\* C10: a non-empty text that contains a voicemail keyword (in any case) is
\* MACHINE with confidence min(0.95, 0.70 + 0.10 x matched keywords) at every
\* duration, also when it is short enough for the greeting or short-answer
\* rule; the empty text is UNKNOWN with confidence 0.0.
C10_KeywordPrecedence ==
    cl_result # NoAnalysis =>
        /\ (cl_text # "" /\ Matched(cl_text) # {}) =>
              /\ cl_result.result = "MACHINE"
              /\ cl_result.confidence =
                    Min(95, 70 + 10 * Cardinality(Matched(cl_text)))
        /\ cl_text = "" => (cl_result.result = "UNKNOWN" /\ cl_result.confidence = 0)

\* a text of two words, a greeting and a keyword, was classified
C10_Witness ==
    /\ cl_text = "hola buzon"
    /\ cl_result # NoAnalysis
    /\ cl_result.result = "MACHINE"
    /\ cl_result.confidence = 80

\* some whole word of a text, lower-cased and trimmed, is a greeting
GreetingWord(text) ==
    \E i \in DOMAIN Split(Normalise(text)) :
        Split(Normalise(text))[i] \in Range(human_greetings)

\* a non-empty text of 3 words or fewer without a voicemail keyword
ShortWithoutKeyword(text) ==
    /\ Normalise(text) # ""
    /\ Len(Split(Normalise(text))) <= 3
    /\ Matched(text) = {}

\* C11: a text of 3 words or fewer without keyword is HUMAN with confidence
\* 0.85 when one of its whole words is a greeting, and HUMAN with confidence
\* 0.70 (short-answer rule) when none of its words is a greeting.
C11_GreetingIsWholeWord ==
    (cl_result # NoAnalysis /\ ShortWithoutKeyword(cl_text)) =>
        /\ cl_result.result = "HUMAN"
        /\ cl_result.confidence = IF GreetingWord(cl_text) THEN 85 ELSE 70

\* the session is undecided (ACCUMULATING) and takes a further call
Accumulating == sess # NoSession /\ ~sess.decision_made /\ calls < MaxCalls

\* what process_audio does to the session sess when the recognizer reports
\* the in-progress text `partial_text` for a chunk of `len` bytes
PartialCall(len, partial_text) == process_audio(sess, len, Asr("partial", partial_text))

\* the call decides the session through the fast exit: MACHINE, partial=true
FastExit(r) ==
    /\ r.session.decision_made
    /\ r.value = r.session.final_result
    /\ r.value.result = "MACHINE"
    /\ r.value.partial
    /\ ~r.value.forced

\* the call returns no decision and leaves transcript and duration as they are
NoDecision(r) ==
    /\ ~r.session.decision_made
    /\ r.value = NoResult
    /\ r.session.accumulated_text = sess.accumulated_text
    /\ r.session.total_speech_duration = sess.total_speech_duration

\* C12: in every state a session reaches undecided, a process_audio call for
\* which the recognizer reports the partial text "buzon" decides the session
\* through the fast exit.
C12_PartialBuzonDecides ==
    Accumulating =>
        \A len \in ChunkLengths : FastExit(PartialCall(len, "buzon"))

\* C12, as the code has it: a partial "buzon" matches one keyword, its
\* confidence 0.80 is under the fast exit's 0.85, and the call returns no
\* decision and leaves the session undecided, its transcript and duration
\* untouched; a partial with two keywords ("deje su mensaje", 0.90) takes
\* the fast exit.
C12_PartialBuzonUndecided ==
    Accumulating =>
        \A len \in ChunkLengths :
            /\ NoDecision(PartialCall(len, "buzon"))
            /\ FastExit(PartialCall(len, "deje su mensaje"))
            /\ PartialCall(len, "deje su mensaje").value.confidence = 90

\* a session whose recognizer reported in-progress text only, and no text at
\* the flush, was fed and then decided by force_decision alone
C12_Witness ==
    /\ sess.decision_made
    /\ sess.final_result.forced
    /\ sess.recognizer.voiced
    /\ sess.recognizer.accepted >= 1
    /\ sess.accumulated_text = ""

\* handler h has a session whose recognizer has reported no text so far
Silent(h) == session[h] # NoSession /\ ~session[h].recognizer.voiced

\* a result forced on no speech: UNKNOWN, confidence 0.0, forced=true
ForcedOnSilence(result) ==
    /\ result.forced
    /\ result.result = "UNKNOWN"
    /\ result.confidence = 0

\* C13: a streaming session whose recognizer never reports text is not
\* decided before the deadline is exceeded; its decision, and every result
\* it sends, is forced, UNKNOWN with confidence 0.0 and comes after the
\* deadline; it sends at most one result, and exactly one when its run ends
\* otherwise than by a disconnect or a frame that raised.
C13_SilenceIsForcedUnknown ==
    \A h \in Handlers :
        Silent(h) =>
            /\ session[h].decision_made =>
                  /\ ForcedOnSilence(session[h].final_result)
                  /\ pc[h] = "send" => clock[h] > AMD_DECISION_TIMEOUT_SECONDS
            /\ \A i \in Results(h) :
                  /\ ForcedOnSilence(sent[h][i].body)
                  /\ sent[h][i].at > AMD_DECISION_TIMEOUT_SECONDS
            /\ Cardinality(Results(h)) <= 1
            /\ (pc[h] = "done" /\ ended[h] \notin {"disconnect", "error"}) =>
                  /\ ended[h] = "timeout"
                  /\ Cardinality(Results(h)) = 1

\* a run that was fed frames of silence has ended with its forced result
C13_Witness ==
    \E h \in Handlers :
        /\ Silent(h)
        /\ session[h].recognizer.accepted >= 1
        /\ pc[h] = "done"
        /\ ended[h] = "timeout"
        /\ Cardinality(Results(h)) = 1

\* s is a prefix of t
IsPrefix(s, t) == Len(s) <= Len(t) /\ SubSeq(t, 1, Len(s)) = s

\* C14: no call on a session decreases total_speech_duration, and every
\* call leaves accumulated_text a prefix of its new value.
C14_AccumulationIsMonotonic ==
    [][/\ sess'.total_speech_duration >= sess.total_speech_duration
       /\ IsPrefix(sess.accumulated_text, sess'.accumulated_text)]_vars

\* two finalized utterances were accumulated, with their durations
C14_Witness ==
    /\ sess.accumulated_text = " a b c d e buzon"
    /\ sess.total_speech_duration >= 3000

\* a DecisionResult
IsDecisionResult(result) == result.result \in {"HUMAN", "MACHINE", "UNKNOWN"}

\* C15: every response of the single-shot endpoint is one DecisionResult,
\* the decision of its session: either reached by process_audio on the
\* buffer (not forced, recognizer not flushed) or made by force_decision
\* (forced=true, recognizer flushed once); never an error and never 'no
\* decision yet'.
C15_SingleShotDecides ==
    calls > 0 =>
        /\ ret.status = 200
        /\ IsDecisionResult(ret.content)
        /\ sess.decision_made
        /\ ret.content = sess.final_result
        /\ sess.recognizer.accepted = 1
        /\ ret.content.forced <=> sess.recognizer.flushed = 1

\* something of handler h changes in the step: its position, its clock, its
\* call_id, its session, its pending result, its messages or its ending
Changed(h) ==
    \/ pc'[h] # pc[h]
    \/ hkind'[h] # hkind[h]
    \/ call_id'[h] # call_id[h]
    \/ clock'[h] # clock[h]
    \/ session'[h] # session[h]
    \/ pending'[h] # pending[h]
    \/ sent'[h] # sent[h]
    \/ ended'[h] # ended[h]

\* C16: in any interleaving of two handlers, a step in which something of one
\* handler changes leaves the session of the other handler as it is, and
\* changes nothing else of the other handler either.
C16_SessionsAreIndependent ==
    [][\A h, g \in Handlers :
          (h # g /\ Changed(h)) => (session'[g] = session[g] /\ ~Changed(g))]_vars

\* two handlers run under the same call_id, one decided and one still polling
C16_Witness ==
    \E h, g \in Handlers :
        /\ h # g
        /\ call_id[h] = call_id[g]
        /\ pc[h] = "send"
        /\ session[h].decision_made
        /\ pc[g] = "recv"
        /\ ~session[g].decision_made

\* what process_audio does to the session sess when the recognizer reports
\* the finalized utterance `text` for a chunk of `len` bytes
FinalCall(len, text) == process_audio(sess, len, Asr("final", text))

\* the transcript and the duration after a finalized utterance, as C17 has them
TranscriptAfter(text) == sess.accumulated_text \o " " \o text
DurationAfter(len) ==
    sess.total_speech_duration + (len * 1000) \div (sess.sample_rate * 2)

\* the classification of that transcript at that duration
ClassifiedAfter(len, text) ==
    analyze_transcription(Strip(TranscriptAfter(text)), DurationAfter(len))

\* the call r appended the text and added the duration, and decided if and
\* only if the classification `analysis` is confident
AccumulatedAndDecided(r, analysis, len, text) ==
    /\ r.session.accumulated_text = TranscriptAfter(text)
    /\ r.session.total_speech_duration = DurationAfter(len)
    /\ r.session.decision_made <=> analysis.confidence >= 70
    /\ r.value = IF r.session.decision_made THEN r.session.final_result ELSE NoResult
    /\ r.session.decision_made =>
          /\ r.value.call_id = sess.call_id
          /\ r.value.result = analysis.result
          /\ r.value.confidence = analysis.confidence
          /\ ~r.value.partial
          /\ ~r.value.forced

\* C17: in every state a session reaches undecided, a process_audio call for
\* which the recognizer reports a finalized utterance appends the text to
\* the transcript, adds len / (sample_rate x 2) to the duration, and decides
\* the session, returning the classification of the whole transcript at
\* that duration, if and only if its confidence is >= 0.70.
C17_FinalizedUtteranceStep ==
    Accumulating =>
        \A len \in ChunkLengths, text \in Utterances :
            AccumulatedAndDecided(FinalCall(len, text), ClassifiedAfter(len, text), len, text)

\* C17, as the code has it: the same for every finalized utterance with
\* text; a finalized utterance without text changes neither transcript nor
\* duration and returns no decision.
C17_NonEmptyUtteranceStep ==
    Accumulating =>
        \A len \in ChunkLengths, text \in Utterances :
            IF text = ""
            THEN NoDecision(FinalCall(len, text))
            ELSE AccumulatedAndDecided(FinalCall(len, text), ClassifiedAfter(len, text),
                                       len, text)

\* a second finalized utterance, at 16 kHz, decided a session on the
\* sustained-speech rule
C17_Witness ==
    /\ sess.decision_made
    /\ ~sess.final_result.forced
    /\ ~sess.final_result.partial
    /\ sess.sample_rate = 16000
    /\ sess.recognizer.accepted >= 2
    /\ sess.final_result.confidence = 75

\* the call r left transcript and duration alone and decided, with the
\* quick classification `analysis` tagged partial, if and only if that
\* classification is MACHINE with confidence >= 0.85
QuickDecision(r, analysis) ==
    /\ r.session.accumulated_text = sess.accumulated_text
    /\ r.session.total_speech_duration = sess.total_speech_duration
    /\ r.session.decision_made <=> (analysis.result = "MACHINE" /\ analysis.confidence >= 85)
    /\ r.value = IF r.session.decision_made THEN r.session.final_result ELSE NoResult
    /\ r.session.decision_made =>
          /\ r.value.partial
          /\ ~r.value.forced
          /\ r.value.result = "MACHINE"
          /\ r.value.confidence = analysis.confidence
          /\ r.value.transcription = analysis.transcription

\* C18: in every state a session reaches undecided, a process_audio call for
\* which the recognizer reports an in-progress partial leaves transcript and
\* duration unchanged and decides, with the classification of the partial
\* text alone at duration 0 tagged partial=true, if and only if that
\* classification is MACHINE with confidence >= 0.85; and every decision
\* tagged partial is MACHINE with confidence >= 0.85.
C18_PartialStep ==
    /\ Accumulating =>
          \A len \in ChunkLengths, partial_text \in Utterances :
              QuickDecision(PartialCall(len, partial_text),
                            analyze_transcription(partial_text, 0))
    /\ (sess # NoSession /\ sess.decision_made /\ sess.final_result.partial) =>
          /\ sess.final_result.result = "MACHINE"
          /\ sess.final_result.confidence >= 85

\* a partial decided a session whose transcript held an undecided utterance
C18_Witness ==
    /\ sess.decision_made
    /\ sess.final_result.partial
    /\ sess.final_result.transcription = "deje su mensaje"
    /\ sess.accumulated_text = " a b c d e"
    /\ sess.total_speech_duration > 0

\* the results a handler has delivered after the deadline
LateResults(h) == {i \in Results(h) : sent[h][i].at > AMD_DECISION_TIMEOUT_SECONDS}

\* C19: every result a handler sends after the deadline is a forced one (no
\* frame is processed once the deadline is exceeded), and no session's
\* recognizer is flushed by force_decision more than once.
C19_OnlyForcedAfterDeadline ==
    \A h \in Handlers :
        /\ \A i \in LateResults(h) : sent[h][i].body.forced
        /\ session[h] # NoSession => session[h].recognizer.flushed <= 1

\* the number of words of the session's transcript
TranscriptWords == Len(Split(Strip(sess.accumulated_text)))

\* C20: a session decided HUMAN has a transcript of 4 words or fewer; a
\* session decided with a transcript of more than 4 words, by a finalized
\* utterance, a partial or force_decision, is MACHINE or UNKNOWN; and a
\* decision tagged partial is never HUMAN.
C20_HumanOnlyWhenShort ==
    (sess # NoSession /\ sess.decision_made) =>
        /\ sess.final_result.result = "HUMAN" => TranscriptWords <= 4
        /\ TranscriptWords > 4 => sess.final_result.result \in {"MACHINE", "UNKNOWN"}
        /\ sess.final_result.partial => sess.final_result.result # "HUMAN"

\* a greeting flushed onto a transcript of five words was decided UNKNOWN
C20_Witness ==
    /\ sess.decision_made
    /\ sess.final_result.forced
    /\ sess.accumulated_text = " a b c d e hola"
    /\ sess.final_result.result = "UNKNOWN"

=============================================================================
